---- MODULE Spec2Model ----
(***************************************************************************)
(* Text shaping (src/src/library/text/shaping.rs): shape, shape_segment    *)
(* with font fallback, shape_tofus, track_and_space, measure, and the      *)
(* ShapedText operations reshape, push_hyphen, slice_safe_to_break and     *)
(* find_safe_to_break.                                                     *)
(*                                                                         *)
(* A text is a sequence of chars; a char occupies Width(c) bytes, and all  *)
(* clusters and ranges are byte offsets, as in the source.  Lengths (Em,   *)
(* Length) are integers.  The font store and the OpenType shaper are       *)
(* collaborators outside the file: they are modelled by two small faces    *)
(* with fixed tables.                                                      *)
(***************************************************************************)
EXTENDS Integers, Sequences, FiniteSets, TLC

\* ---------------------------------------------------------------- bounds

\* Longest text passed to shape, in chars.
MaxLen == 3
\* Longest FAMILY list of the style chain.
MaxFamilies == 2
\* How many times push_hyphen is applied to one run.
MaxHyphens == 1

\* ----------------------------------------------------------------- chars

\* "L" stands for a two-byte char (such as a Greek lambda).
Chars == {"a", " ", "\t", "L"}

\* char::len_utf8
Width(c) == IF c = "L" THEN 2 ELSE 1

RECURSIVE ByteLen(_)
\* str::len: the length of a text in bytes
ByteLen(t) == IF t = << >> THEN 0 ELSE Width(Head(t)) + ByteLen(Tail(t))

\* The byte offset of the i-th char of t (str::char_indices).
Off(t, i) == ByteLen(SubSeq(t, 1, i - 1))

\* Whether byte index b is a char boundary of t (str::is_char_boundary).
IsBoundary(t, b) == b = ByteLen(t) \/ \E i \in 1..Len(t) : Off(t, i) = b

\* Index of the first char at or after byte b, Len(t) + 1 when there is none.
CharFrom(t, b) ==
  IF \E i \in 1..Len(t) : Off(t, i) >= b
  THEN CHOOSE i \in 1..Len(t) : Off(t, i) >= b /\ \A j \in 1..(i - 1) : Off(t, j) < b
  ELSE Len(t) + 1

\* &text[s .. e] for char boundaries s <= e.
SliceBytes(t, s, e) == SubSeq(t, CharFrom(t, s), CharFrom(t, e) - 1)

\* text[b ..].chars().next().unwrap()
CharAt(t, b) == t[CharFrom(t, b)]

\* text.chars().all(|c| c == '\n' || c == '\t')
AllNewlineTab(t) == \A i \in 1..Len(t) : t[i] = "\t"

RECURSIVE Reverse(_)
Reverse(s) == IF s = << >> THEN << >> ELSE Append(Reverse(Tail(s)), Head(s))

RECURSIVE Flatten(_)
Flatten(ss) == IF ss = << >> THEN << >> ELSE Head(ss) \o Flatten(Tail(ss))

\* ------------------------------------------------------------ font store

NoFace == 0
Faces == {1, 2}

\* Dir::is_positive
IsPositive(dir) == dir = "LTR"

\* styles.get(TextNode::SIZE): the text size that resolves an Em to a Length.
TextSize == 2

\* Em::resolve
Resolve(em) == em * TextSize

\* ttf.glyph_index(c): 0 when the face has no glyph for the char.  Face 1 is
\* a Latin face, face 2 covers the two-byte char; neither has a tab glyph.
GlyphIndex(f, c) ==
  CASE f = 1 /\ c = "a" -> 1
    [] f = 1 /\ c = " " -> 2
    [] f = 1 /\ c = "-" -> 3
    [] f = 2 /\ c = " " -> 2
    [] f = 2 /\ c = "-" -> 3
    [] f = 2 /\ c = "L" -> 4
    [] OTHER -> 0

\* ttf.glyph_hor_advance(glyph_id) through face.to_em: -1 when the face has
\* no advance for the glyph (face 2 has none for the hyphen and for notdef).
HorAdvance(f, g) ==
  CASE f = 1 /\ g = 0 -> 1
    [] f = 1 /\ g = 1 -> 3
    [] f = 1 /\ g = 2 -> 1
    [] f = 1 /\ g = 3 -> 2
    [] f = 1 /\ g = 6 -> 2
    [] f = 2 /\ g = 2 -> 2
    [] f = 2 /\ g = 4 -> 2
    [] f = 2 /\ g = 5 -> 0
    [] OTHER -> -1

\* face.metrics().vertical(top_edge, size) and -vertical(bottom_edge, size)
Ascent(f) == IF f = 1 THEN 3 ELSE 4
Descent(f) == IF f = 1 THEN 1 ELSE 2

\* Whether the face maps the char to a glyph (the coverage select_fallback reads).
Covers(f, c) == GlyphIndex(f, c) # 0

\* fonts.select(family, variant): the store holds two families.
Select(family) ==
  CASE family = "latin" -> 1
    [] family = "greek" -> 2
    [] OTHER -> NoFace

\* fonts.select_fallback(like, variant, text): a face that covers the first
\* char of the text, NoFace when there is none.
SelectFallback(like, t) ==
  LET cands == {f \in Faces : Covers(f, Head(t))}
  IN  IF cands = {} THEN NoFace
      ELSE IF like \in cands THEN like
      ELSE CHOOSE f \in cands : \A g \in cands : f <= g

\* The hard-coded tail of families(styles); the store holds none of them.
FALLBACKS ==
  << "ibm plex sans", "twitter color emoji", "noto color emoji",
     "apple color emoji", "segoe ui emoji" >>

\* families(styles): the FAMILY list, then the tail when FALLBACK is set.
Families(st) == st.family \o (IF st.fallback THEN FALLBACKS ELSE << >>)

\* ---------------------------------------------------------------- shaper

\* What rustybuzz::shape yields for the j-th char of segment t in face f: one
\* entry per glyph, in source order.  A covered char gives one glyph; face 2
\* gives "L" a base and a mark glyph in one cluster; face 1 has the base of
\* "L" but not its mark, so the cluster is half notdef; an uncovered char
\* gives notdef.  Face 1 kerns "aa": the first advance shrinks and the second
\* glyph is unsafe to break before.
ShapeChar(f, t, j) ==
  LET c == t[j]
      p == Off(t, j)
      g == GlyphIndex(f, c)
      kernedBefore == f = 1 /\ c = "a" /\ j > 1 /\ t[j - 1] = "a"
      kernedAfter == f = 1 /\ c = "a" /\ j < Len(t) /\ t[j + 1] = "a"
      notdefAdv == IF HorAdvance(f, 0) < 0 THEN 0 ELSE HorAdvance(f, 0)
      info(gid, adv, off) ==
        [cluster |-> p, glyph_id |-> gid, unsafe_to_break |-> kernedBefore,
         x_advance |-> adv, x_offset |-> off]
  IN  CASE c = "L" /\ f = 2 -> << info(4, 2, 0), info(5, 0, -1) >>
        [] c = "L" /\ f = 1 -> << info(6, 2, 0), info(0, notdefAdv, 0) >>
        [] c # "L" /\ g # 0 ->
             << info(g, HorAdvance(f, g) - (IF kernedAfter THEN 1 ELSE 0), 0) >>
        [] OTHER -> << info(0, notdefAdv, 0) >>

\* rustybuzz::shape(face.ttf(), &ctx.tags, buffer): glyph infos and positions,
\* in visual order: source order for LTR, reversed for RTL.
Shaper(f, t, dir) ==
  LET seq == Flatten([j \in 1..Len(t) |-> ShapeChar(f, t, j)])
  IN  IF IsPositive(dir) THEN seq ELSE Reverse(seq)

\* ----------------------------------------------------------------- state

VARIABLES
  styles,  \* the style chain: TRACKING, SPACING, FALLBACK, FAMILY
  run,     \* the ShapedText the caller holds, NoRun when it holds none; its
           \* origin records where it came from: "shape", "slice" (a borrowed
           \* slice of a run shape returned) or "other"
  prev,    \* the borrowed run whose text is being shaped again from scratch
  pc,      \* "idle", "segment" (inside shape_segment), "finish", "aborted"
  ctx,     \* the ShapingContext of the running shape call
  stack    \* the shape_segment invocations, outermost first

vars == << styles, run, prev, pc, ctx, stack >>

Range(s) == {s[i] : i \in 1..Len(s)}

\* All sequences over S of length at most n.
SeqsUpTo(S, n) == UNION {[1..k -> S] : k \in 0..n}

Texts == SeqsUpTo(Chars, MaxLen)
Dirs == {"LTR", "RTL"}
FamilyNames == {"latin", "greek", "serif"}

StyleSet ==
  [tracking : {0, 1}, spacing : {1, 2}, fallback : BOOLEAN,
   family : SeqsUpTo(FamilyNames, MaxFamilies)]

\* The caller holds no run.
NoRun ==
  [text |-> << >>, dir |-> "none", size |-> [x |-> 0, y |-> 0], baseline |-> 0,
   glyphs |-> << >>, borrowed |-> FALSE, origin |-> "none"]

NoCtx == [glyphs |-> << >>, used |-> << >>, text |-> << >>, dir |-> "none"]

\* ShapedGlyph
ShapedGlyph(face_id, glyph_id, x_advance, x_offset, cluster, safe_to_break, c) ==
  [face_id |-> face_id, glyph_id |-> glyph_id, x_advance |-> x_advance,
   x_offset |-> x_offset, cluster |-> cluster, safe_to_break |-> safe_to_break,
   c |-> c]

\* ShapedGlyph::is_space
IsSpace(g) == g.c = " "

Max(a, b) == IF a >= b THEN a ELSE b

RECURSIVE SumAdvance(_)
\* the sum of glyph.x_advance.resolve(size) over a glyph slice
SumAdvance(gs) ==
  IF gs = << >> THEN 0 ELSE Resolve(Head(gs).x_advance) + SumAdvance(Tail(gs))

\* The largest member of a non-empty set of integers.
SetMax(S) == CHOOSE x \in S : \A y \in S : y <= x

\* The first family of the style chain the store resolves, NoFace if none.
FirstFace(st) ==
  LET fams == Families(st)
      hits == {k \in 1..Len(fams) : Select(fams[k]) # NoFace}
  IN  IF hits = {} THEN NoFace
      ELSE Select(fams[CHOOSE k \in hits : \A m \in hits : k <= m])

\* measure(fonts, glyphs, styles): (size, baseline)
Measure(gs, st) ==
  LET f0 == FirstFace(st)
      top == IF gs = << >>
             THEN (IF f0 = NoFace THEN 0 ELSE Max(0, Ascent(f0)))
             ELSE SetMax({0} \cup {Ascent(gs[i].face_id) : i \in 1..Len(gs)})
      bottom == IF gs = << >>
                THEN (IF f0 = NoFace THEN 0 ELSE Max(0, Descent(f0)))
                ELSE SetMax({0} \cup {Descent(gs[i].face_id) : i \in 1..Len(gs)})
  IN  [size |-> [x |-> SumAdvance(gs), y |-> top + bottom], baseline |-> top]

\* TrackGlyph with a fault: the tracking is added before the spacing factor is
\* applied, so that a space glyph has its tracking multiplied too.
TrackGlyphTrackFirst(gs, i, tracking, spacing) ==
  LET g == gs[i]
      tracked == IF i < Len(gs) /\ g.cluster # gs[i + 1].cluster
                 THEN g.x_advance + tracking ELSE g.x_advance
      spaced == IF IsSpace(g) THEN tracked * spacing ELSE tracked
  IN  [g EXCEPT !.x_advance = spaced]

\* One glyph of the track_and_space loop: spacing scales a space, then
\* tracking is added when the next glyph starts another cluster.
TrackGlyph(gs, i, tracking, spacing) ==
  LET g == gs[i]
      spaced == IF IsSpace(g) THEN g.x_advance * spacing ELSE g.x_advance
      tracked == IF i < Len(gs) /\ g.cluster # gs[i + 1].cluster
                 THEN spaced + tracking ELSE spaced
  IN  [g EXCEPT !.x_advance = tracked]

\* track_and_space with a fault: no early return, and the vector is rebuilt
\* from the adjacent pairs, which loses the last glyph.
TrackAndSpacePairs(gs, st) ==
  [i \in 1..(Len(gs) - 1) |-> TrackGlyph(gs, i, st.tracking, st.spacing)]

\* track_and_space(ctx)
TrackAndSpace(gs, st) ==
  IF st.tracking = 0 /\ st.spacing = 1 THEN gs
  ELSE [i \in 1..Len(gs) |-> TrackGlyph(gs, i, st.tracking, st.spacing)]

\* ------------------------------------------------------------ ShapedText

\* Whether the glyphs are ordered as the comparator of the binary search in
\* find_safe_to_break assumes: clusters ascending for LTR, descending for RTL.
SortedFor(gs, dir) ==
  \A i \in 1..(Len(gs) - 1) :
    IF IsPositive(dir) THEN gs[i].cluster <= gs[i + 1].cluster
    ELSE gs[i].cluster >= gs[i + 1].cluster

\* glyphs.binary_search_by(...).ok(): the indices (from 0) the search may
\* return, -1 for none.  Among several matches any may be returned, and on a
\* slice that is not sorted the result is unspecified.
BinarySearch(gs, dir, text_index) ==
  LET matches == {n \in 0..(Len(gs) - 1) : gs[n + 1].cluster = text_index}
  IN  IF ~SortedFor(gs, dir) THEN matches \cup {-1}
      ELSE IF matches = {} THEN {-1}
      ELSE matches

\* The while loop of find_safe_to_break: from idx, the outermost glyph towards
\* the side that is reached through glyphs of the same cluster.
Outermost(gs, text_index, idx, towards) ==
  IF towards = "Left"
  THEN CHOOSE m \in 0..idx :
         /\ \A n \in m..idx : gs[n + 1].cluster = text_index
         /\ (m = 0 \/ gs[m].cluster # text_index)
  ELSE CHOOSE m \in idx..(Len(gs) - 1) :
         /\ \A n \in idx..m : gs[n + 1].cluster = text_index
         /\ (m = Len(gs) - 1 \/ gs[m + 2].cluster # text_index)

Nothing == -1
Panic == -2

\* find_safe_to_break(text_index, towards): the outcomes the call can have,
\* each a glyph index from 0, Nothing, or Panic for glyphs[idx] out of bounds.
FindSafeToBreak(r, text_index, towards) ==
  LET ltr == IsPositive(r.dir)
      len == Len(r.glyphs)
      after(found) ==
        IF found = -1 THEN Nothing
        ELSE LET out == Outermost(r.glyphs, text_index, found, towards)
                 idx == IF ltr THEN out ELSE out + 1
             IN  IF idx >= len THEN Panic
                 ELSE IF r.glyphs[idx + 1].safe_to_break THEN idx
                 ELSE Nothing
  IN  IF text_index = 0 THEN {IF ltr THEN 0 ELSE len}
      ELSE IF text_index = ByteLen(r.text) THEN {IF ltr THEN len ELSE 0}
      ELSE {after(found) : found \in BinarySearch(r.glyphs, r.dir, text_index)}

\* slice_safe_to_break(text_range): the outcomes the call can have, each
\* [kind, left, right] with kind "some" (the slice glyphs[left .. right]),
\* "none" or "panic" (an index out of bounds, or left > right).
SliceSafeToBreak(r, range_start, range_end) ==
  LET start == IF IsPositive(r.dir) THEN range_start ELSE range_end
      end == IF IsPositive(r.dir) THEN range_end ELSE range_start
      res(kind, left, right) == [kind |-> kind, left |-> left, right |-> right]
      withLeft(left) ==
        IF left = Nothing THEN {res("none", 0, 0)}
        ELSE IF left = Panic THEN {res("panic", 0, 0)}
        ELSE { IF right = Nothing THEN res("none", 0, 0)
               ELSE IF right = Panic THEN res("panic", 0, 0)
               ELSE IF left > right \/ right > Len(r.glyphs)
                    THEN res("panic", left, right)
               ELSE res("some", left, right)
               : right \in FindSafeToBreak(r, end, "Right") }
  IN  UNION {withLeft(left) : left \in FindSafeToBreak(r, start, "Left")}

\* BorrowedRun with a fault: the slice keeps the size and baseline of the run
\* it was cut from instead of being measured.
BorrowedRunKeepsSize(r, st, range_start, range_end, left, right) ==
  [text |-> SliceBytes(r.text, range_start, range_end), dir |-> r.dir,
   size |-> r.size, baseline |-> r.baseline,
   glyphs |-> SubSeq(r.glyphs, left + 1, right), borrowed |-> TRUE,
   origin |-> IF r.origin = "shape" THEN "slice" ELSE "other"]

\* The Self { .. } of reshape when slice_safe_to_break gave glyphs[left .. right].
BorrowedRun(r, st, range_start, range_end, left, right) ==
  LET gs == SubSeq(r.glyphs, left + 1, right)
      m == Measure(gs, st)
  IN  [text |-> SliceBytes(r.text, range_start, range_end), dir |-> r.dir,
       size |-> m.size, baseline |-> m.baseline, glyphs |-> gs,
       borrowed |-> TRUE,
       origin |-> IF r.origin = "shape" THEN "slice" ELSE "other"]

\* The face push_hyphen takes: the first family whose face has a glyph for
\* '-' and a horizontal advance for it; NoFace when there is none.
HyphenFace(st) ==
  LET fams == Families(st)
      ok(k) == /\ Select(fams[k]) # NoFace
               /\ GlyphIndex(Select(fams[k]), "-") # 0
               /\ HorAdvance(Select(fams[k]), GlyphIndex(Select(fams[k]), "-")) >= 0
      hits == {k \in 1..Len(fams) : ok(k)}
  IN  IF hits = {} THEN NoFace
      ELSE Select(fams[CHOOSE k \in hits : \A m \in hits : k <= m])

\* push_hyphen with a fault: the hyphen gets the cluster text.len(), the end
\* of the text, instead of the cluster of the last glyph.
PushHyphenAtTextEnd(r, st) ==
  LET face_id == HyphenFace(st)
      glyph_id == GlyphIndex(face_id, "-")
      x_advance == HorAdvance(face_id, glyph_id)
  IN  IF face_id = NoFace THEN r
      ELSE [r EXCEPT
              !.size.x = @ + Resolve(x_advance),
              !.glyphs = Append(@, ShapedGlyph(face_id, glyph_id, x_advance, 0,
                                               ByteLen(r.text), TRUE, "-")),
              !.borrowed = FALSE,
              !.origin = "other"]

\* push_hyphen(fonts)
PushHyphenFn(r, st) ==
  LET face_id == HyphenFace(st)
      glyph_id == GlyphIndex(face_id, "-")
      x_advance == HorAdvance(face_id, glyph_id)
      cluster == IF r.glyphs = << >> THEN 0 ELSE r.glyphs[Len(r.glyphs)].cluster
  IN  IF face_id = NoFace THEN r
      ELSE [r EXCEPT
              !.size.x = @ + Resolve(x_advance),
              !.glyphs = Append(@, ShapedGlyph(face_id, glyph_id, x_advance, 0,
                                               cluster, TRUE, "-")),
              !.borrowed = FALSE,
              !.origin = "other"]

\* How many hyphens were pushed to the run.
Hyphens(r) == Cardinality({i \in 1..Len(r.glyphs) : r.glyphs[i].c = "-"})

\* --------------------------------------------------------- shape_segment

\* A shape_segment invocation: its arguments base and text, the position of
\* its families iterator (fam: the next family to try), and, once it has
\* selected a face (entered), face_id, the shaper output infos and the loop
\* index i (from 1).
Frame(base, text, fam) ==
  [base |-> base, text |-> text, fam |-> fam, entered |-> FALSE,
   face_id |-> NoFace, infos |-> << >>, i |-> 0]

Top == stack[Len(stack)]

\* SelectFamily with a fault: the filter on the used stack is missing.
SelectFamilyAnyFace(fams, from, used) ==
  LET hits == {k \in from..Len(fams) : Select(fams[k]) # NoFace}
      k0 == CHOOSE k \in hits : \A m \in hits : k <= m
  IN  IF hits = {} THEN [face |-> NoFace, next |-> Len(fams) + 1]
      ELSE [face |-> Select(fams[k0]), next |-> k0 + 1]

\* families.find_map(|family| select(family).filter(|id| !used.contains(id))):
\* the face found, and the iterator's position after the call.
SelectFamily(fams, from, used) ==
  LET hits == {k \in from..Len(fams) :
                 Select(fams[k]) # NoFace /\ Select(fams[k]) \notin Range(used)}
      k0 == CHOOSE k \in hits : \A m \in hits : k <= m
  IN  IF hits = {} THEN [face |-> NoFace, next |-> Len(fams) + 1]
      ELSE [face |-> Select(fams[k0]), next |-> k0 + 1]

\* select_fallback(first, variant, text).filter(|id| !used.contains(id))
SelectFallbackUnused(used, t) ==
  LET first == IF used = << >> THEN NoFace ELSE used[1]
      id == SelectFallback(first, t)
  IN  IF id \in Range(used) THEN NoFace ELSE id

\* The selection of shape_segment: the next available family, then the
\* fallback when the families are exhausted and fallback is enabled.
Selection(st, fr, used) ==
  LET sel == SelectFamily(Families(st), fr.fam, used)
  IN  IF sel.face = NoFace /\ st.fallback
      THEN [face |-> SelectFallbackUnused(used, fr.text), next |-> sel.next]
      ELSE sel

\* shape_tofus with a fault: the cluster is the offset in the segment, without
\* the base of the segment.
ShapeTofusNoBase(base, t, face_id) ==
  LET x_advance == IF HorAdvance(face_id, 0) < 0 THEN 0 ELSE HorAdvance(face_id, 0)
  IN  [j \in 1..Len(t) |->
         ShapedGlyph(face_id, 0, x_advance, 0, Off(t, j), TRUE, t[j])]

\* shape_tofus(ctx, base, text, face_id): the glyphs it pushes.
ShapeTofus(base, t, face_id) ==
  LET x_advance == IF HorAdvance(face_id, 0) < 0 THEN 0 ELSE HorAdvance(face_id, 0)
  IN  [j \in 1..Len(t) |->
         ShapedGlyph(face_id, 0, x_advance, 0, base + Off(t, j), TRUE, t[j])]

\* The stack and pc after the innermost invocation returns.
Return ==
  /\ stack' = SubSeq(stack, 1, Len(stack) - 1)
  /\ pc' = IF Len(stack) = 1 THEN "finish" ELSE "segment"

\* shape_segment from its entry to the shaper call: return at once for a text
\* of newlines and tabs; select a face; push tofus and return when there is
\* none; else push the face to used and shape the text with it.
SegEnter ==
  /\ pc = "segment"
  /\ ~Top.entered
  /\ \E sel \in {Selection(styles, Top, ctx.used)} :
     LET fr == Top
     IN  IF AllNewlineTab(fr.text)
         THEN Return /\ UNCHANGED ctx
         ELSE IF sel.face = NoFace
         THEN /\ ctx' = IF ctx.used = << >> THEN ctx
                        ELSE [ctx EXCEPT !.glyphs =
                                @ \o ShapeTofus(fr.base, fr.text, ctx.used[1])]
              /\ Return
         ELSE /\ ctx' = [ctx EXCEPT !.used = Append(@, sel.face)]
              /\ stack' = [stack EXCEPT ![Len(stack)] =
                             [fr EXCEPT !.entered = TRUE, !.fam = sel.next,
                                        !.face_id = sel.face,
                                        !.infos = Shaper(sel.face, fr.text, ctx.dir),
                                        !.i = 1]]
              /\ pc' = "segment"
  /\ UNCHANGED << styles, run, prev >>

\* One pass of the loop for an entry with a glyph: the glyph is pushed.
SegGlyph ==
  /\ pc = "segment"
  /\ Top.entered
  /\ Top.i <= Len(Top.infos)
  /\ Top.infos[Top.i].glyph_id # 0
  /\ LET fr == Top
         info == fr.infos[fr.i]
     IN  /\ ctx' = [ctx EXCEPT !.glyphs =
                      Append(@, ShapedGlyph(fr.face_id, info.glyph_id,
                                            info.x_advance, info.x_offset,
                                            fr.base + info.cluster,
                                            ~info.unsafe_to_break,
                                            CharAt(fr.text, info.cluster)))]
         /\ stack' = [stack EXCEPT ![Len(stack)].i = @ + 1]
  /\ UNCHANGED << styles, run, prev, pc >>

\* The index of the last entry of the tofu sequence that starts at k.
TofuEnd(infos, k) ==
  CHOOSE i \in k..Len(infos) :
    /\ \A n \in k..i : infos[n].glyph_id = 0
    /\ (i = Len(infos) \/ infos[i + 1].glyph_id # 0)

\* TofuRange with a fault: the left-to-right rule is used for both directions.
TofuRangeLtrOnly(infos, k, i, t, dir) ==
  [start |-> infos[k].cluster,
   end |-> IF i + 1 <= Len(infos) THEN infos[i + 1].cluster ELSE ByteLen(t)]

\* The source text range start .. end of the tofu sequence infos[k ..= i].
TofuRange(infos, k, i, t, dir) ==
  LET ltr == IsPositive(dir)
      first == IF ltr THEN k ELSE i
      last == IF ltr THEN i + 1 ELSE k - 1
  IN  [start |-> infos[first].cluster,
       end |-> IF last >= 1 /\ last <= Len(infos) THEN infos[last].cluster
               ELSE ByteLen(t)]

RECURSIVE Trim(_, _, _)
\* while glyphs.last() has its cluster in lo .. hi: glyphs.pop()
Trim(gs, lo, hi) ==
  IF gs # << >> /\ lo <= gs[Len(gs)].cluster /\ gs[Len(gs)].cluster < hi
  THEN Trim(SubSeq(gs, 1, Len(gs) - 1), lo, hi)
  ELSE gs

\* One pass of the loop for a notdef entry: find the tofu sequence and its
\* text range, trim the half-baked cluster, and call shape_segment on the
\* range with the rest of the families.  The loop resumes after the sequence.
SegTofu ==
  /\ pc = "segment"
  /\ Top.entered
  /\ Top.i <= Len(Top.infos)
  /\ Top.infos[Top.i].glyph_id = 0
  /\ LET fr == Top
         i == TofuEnd(fr.infos, fr.i)
         range == TofuRange(fr.infos, fr.i, i, fr.text, ctx.dir)
     IN  IF range.start > range.end
         THEN pc' = "aborted" /\ UNCHANGED << ctx, stack >>
         ELSE /\ ctx' = [ctx EXCEPT !.glyphs =
                           Trim(@, fr.base + range.start, fr.base + range.end)]
              /\ stack' = Append([stack EXCEPT ![Len(stack)].i = i + 1],
                                 Frame(fr.base + range.start,
                                       SliceBytes(fr.text, range.start, range.end),
                                       fr.fam))
              /\ pc' = "segment"
  /\ UNCHANGED << styles, run, prev >>

\* SegExit with a fault: the face is left on the used stack.
SegExitKeepsUsed ==
  /\ pc = "segment"
  /\ Top.entered
  /\ Top.i > Len(Top.infos)
  /\ Return
  /\ UNCHANGED << styles, run, prev, ctx >>

\* The loop is over: pop the face from used and return.
SegExit ==
  /\ pc = "segment"
  /\ Top.entered
  /\ Top.i > Len(Top.infos)
  /\ ctx' = [ctx EXCEPT !.used = SubSeq(@, 1, Len(@) - 1)]
  /\ Return
  /\ UNCHANGED << styles, run, prev >>

\* ----------------------------------------------------------------- shape

\* The state shape(fonts, text, styles, dir) starts shape_segment in.
BeginShape(t, d) ==
  /\ ctx' = [glyphs |-> << >>, used |-> << >>, text |-> t, dir |-> d]
  /\ stack' = IF t = << >> THEN << >> ELSE << Frame(0, t, 1) >>
  /\ pc' = IF t = << >> THEN "finish" ELSE "segment"

\* The caller, holding no run, calls shape on a text.
ShapeCall ==
  /\ pc = "idle"
  /\ run = NoRun
  /\ \E t \in Texts, d \in Dirs : BeginShape(t, d)
  /\ UNCHANGED << styles, run, prev >>

\* The caller shapes the text of a borrowed run again from scratch, with the
\* same styles and direction, keeping the borrowed run to compare.
ShapeAgain ==
  /\ pc = "idle"
  /\ run.borrowed
  /\ BeginShape(run.text, run.dir)
  /\ prev' = run
  /\ run' = NoRun
  /\ UNCHANGED styles

\* The end of shape: track_and_space, measure, and the ShapedText.
ShapeFinish ==
  /\ pc = "finish"
  /\ LET gs == TrackAndSpace(ctx.glyphs, styles)
         m == Measure(gs, styles)
     IN  run' = [text |-> ctx.text, dir |-> ctx.dir, size |-> m.size,
                 baseline |-> m.baseline, glyphs |-> gs, borrowed |-> FALSE,
                 origin |-> "shape"]
  /\ pc' = "idle"
  /\ ctx' = NoCtx
  /\ UNCHANGED << styles, prev, stack >>

\* The byte ranges reshape is called with: char boundaries of the run's text.
Ranges(r) ==
  {rg \in (0..ByteLen(r.text)) \X (0..ByteLen(r.text)) :
     rg[1] <= rg[2] /\ IsBoundary(r.text, rg[1]) /\ IsBoundary(r.text, rg[2])}

\* reshape(fonts, text_range): the borrowed slice when both sides are safe to
\* break, else shape on the sub-text.
Reshape ==
  /\ pc = "idle"
  /\ run # NoRun
  /\ \E rg \in Ranges(run) :
       \E res \in SliceSafeToBreak(run, rg[1], rg[2]) :
         CASE res.kind = "some" ->
                /\ run' = BorrowedRun(run, styles, rg[1], rg[2], res.left, res.right)
                /\ UNCHANGED << pc, ctx, stack >>
           [] res.kind = "none" ->
                /\ BeginShape(SliceBytes(run.text, rg[1], rg[2]), run.dir)
                /\ run' = NoRun
           [] OTHER ->
                /\ pc' = "aborted"
                /\ UNCHANGED << run, ctx, stack >>
  /\ prev' = NoRun
  /\ UNCHANGED styles

\* push_hyphen(fonts) on the run the caller holds.
PushHyphen ==
  /\ pc = "idle"
  /\ run # NoRun
  /\ Hyphens(run) < MaxHyphens
  /\ run' = PushHyphenFn(run, styles)
  /\ prev' = NoRun
  /\ UNCHANGED << styles, pc, ctx, stack >>

Init ==
  /\ styles \in StyleSet
  /\ run = NoRun
  /\ prev = NoRun
  /\ pc = "idle"
  /\ ctx = NoCtx
  /\ stack = << >>

Next ==
  \/ ShapeCall
  \/ ShapeAgain
  \/ SegEnter
  \/ SegGlyph
  \/ SegTofu
  \/ SegExit
  \/ ShapeFinish
  \/ Reshape
  \/ PushHyphen

Spec == Init /\ [][Next]_vars

\* ---------------------------------------------------------------- claims

\* The run came from shape (also through the re-shape branch of reshape) and
\* was not changed since.
FromShape(r) == r.origin = "shape"

\* C1: every run returned by shape has direction-consistent clusters:
\* non-decreasing for LTR, non-increasing for RTL, the glyphs of recursive
\* fallback and of the tofu emitter included.
C1_ClustersMonotone ==
  (pc = "idle" /\ FromShape(run)) =>
    \A i \in 1..(Len(run.glyphs) - 1) :
      /\ run.dir = "LTR" => run.glyphs[i].cluster <= run.glyphs[i + 1].cluster
      /\ run.dir = "RTL" => run.glyphs[i].cluster >= run.glyphs[i + 1].cluster

\* C2: in every run reached by shape, reshape (either branch) and push_hyphen,
\* every glyph's cluster lies in 0 .. text.len() of the run's own text.
C2_ClustersInText ==
  (pc = "idle" /\ run # NoRun) =>
    \A i \in 1..Len(run.glyphs) :
      0 <= run.glyphs[i].cluster /\ run.glyphs[i].cluster < ByteLen(run.text)

\* The fields of a glyph that C3 compares.
Compared(g) ==
  << g.glyph_id, g.x_advance, g.x_offset, g.cluster, g.c, g.safe_to_break >>

\* C3: a run that reshape, called on a run shape returned, gave back through
\* the borrowed-slice branch has the glyph list, field by field, that shape
\* gives from scratch on the same text with the same styles and direction.
C3_BorrowedEqualsScratch ==
  (pc = "idle" /\ prev.origin = "slice" /\ FromShape(run)) =>
    /\ Len(run.glyphs) = Len(prev.glyphs)
    /\ \A i \in 1..Len(run.glyphs) :
         Compared(run.glyphs[i]) = Compared(prev.glyphs[i])

\* C4: on a run produced by shape, whenever slice_safe_to_break(start .. end)
\* returns a slice, the slice holds exactly the glyphs whose cluster c has
\* start <= c < end.
C4_SliceExact ==
  (pc = "idle" /\ FromShape(run)) =>
    \A range_start \in 0..ByteLen(run.text) :
      \A range_end \in range_start..ByteLen(run.text) :
        \A res \in SliceSafeToBreak(run, range_start, range_end) :
          res.kind = "some" =>
            \A i \in 1..Len(run.glyphs) :
              (res.left < i /\ i <= res.right)
                <=> (range_start <= run.glyphs[i].cluster
                     /\ run.glyphs[i].cluster < range_end)

\* C5: no operation aborts: no glyph index out of bounds in
\* find_safe_to_break, no glyph range with left > right in
\* slice_safe_to_break, no text slice with start > end in shape_segment.
C5_NoAbort == pc # "aborted"

RECURSIVE AdvanceSum(_)
\* The sum of the glyphs' advances resolved at the text size.
AdvanceSum(gs) ==
  IF gs = << >> THEN 0
  ELSE gs[Len(gs)].x_advance * TextSize + AdvanceSum(SubSeq(gs, 1, Len(gs) - 1))

\* C6: in every run reached by shape (any tracking and spacing), reshape
\* (either branch) and push_hyphen, size.width is the sum over the run's
\* glyphs of x_advance resolved at the text size.
C6_WidthIsSum ==
  (pc = "idle" /\ run # NoRun) => run.size.x = AdvanceSum(run.glyphs)

\* C6's case: a run shaped with tracking and spacing, with a space in it, that
\* got a hyphen.
C6_Witness ==
  /\ pc = "idle"
  /\ Hyphens(run) = 1
  /\ styles.tracking = 1 /\ styles.spacing = 2
  /\ \E i \in 1..Len(run.glyphs) : run.glyphs[i].c = " " /\ run.glyphs[i].x_advance > 0
  /\ run.size.x > 0

\* No family of the style chain has a face with both a glyph for '-' and a
\* horizontal advance for it.
NoHyphenFace ==
  \A k \in 1..Len(Families(styles)) :
    LET f == Select(Families(styles)[k])
    IN  f = NoFace \/ GlyphIndex(f, "-") = 0 \/ HorAdvance(f, GlyphIndex(f, "-")) < 0

\* C7: push_hyphen on any run either appends exactly one glyph (c = '-',
\* safe_to_break, x_offset 0, the cluster of the previously last glyph) and
\* grows size.width by that glyph's advance, leaving the earlier glyphs, text,
\* dir and baseline alone; or, when no family has a face with a '-' glyph and
\* an advance for it, leaves the run unchanged.
C7_PushHyphenOutcomes ==
  (pc = "idle" /\ run # NoRun) =>
    LET after == PushHyphenFn(run, styles)
        n == Len(run.glyphs)
        hyphen == after.glyphs[n + 1]
    IN  IF NoHyphenFace THEN after = run
        ELSE /\ Len(after.glyphs) = n + 1
             /\ SubSeq(after.glyphs, 1, n) = run.glyphs
             /\ hyphen.c = "-" /\ hyphen.safe_to_break /\ hyphen.x_offset = 0
             /\ n > 0 => hyphen.cluster = run.glyphs[n].cluster
             /\ after.size.x = run.size.x + hyphen.x_advance * TextSize
             /\ after.size.y = run.size.y
             /\ after.text = run.text /\ after.dir = run.dir
             /\ after.baseline = run.baseline

\* C7's case: a hyphen was pushed to a run that had glyphs, after a glyph of a
\* cluster other than 0.
C7_Witness ==
  /\ pc = "idle"
  /\ Len(run.glyphs) >= 2
  /\ run.glyphs[Len(run.glyphs)].c = "-"
  /\ run.glyphs[Len(run.glyphs)].cluster > 0
  /\ run.glyphs[Len(run.glyphs) - 1].c # "-"

\* The used stack as it was when the innermost invocation was entered: the
\* invocation pushes its own face on top once it has selected it.
UsedAtEntry ==
  IF Top.entered THEN SubSeq(ctx.used, 1, Len(ctx.used) - 1) ELSE ctx.used

\* A step of an invocation entered by recursion that appends glyphs.
RecursionAppends ==
  /\ pc = "segment"
  /\ Len(stack) >= 2
  /\ Len(ctx'.glyphs) > Len(ctx.glyphs)

\* C8 as stated: no glyph an invocation entered by recursion appends, shaped
\* glyph or tofu placeholder, has a face that was on the used stack when the
\* invocation was entered.
C8_NoAppendedFaceUsed ==
  [][RecursionAppends =>
       \A n \in (Len(ctx.glyphs) + 1)..Len(ctx'.glyphs) :
         ctx'.glyphs[n].face_id \notin Range(UsedAtEntry)]_vars

\* C8 amended: no shaped glyph (glyph_id # 0) an invocation entered by
\* recursion appends has a face that was on the used stack when the invocation
\* was entered; a tofu placeholder carries the outermost face, the bottom of
\* the used stack.
C8_ShapedFaceUnused ==
  [][RecursionAppends =>
       \A n \in (Len(ctx.glyphs) + 1)..Len(ctx'.glyphs) :
         IF ctx'.glyphs[n].glyph_id # 0
         THEN ctx'.glyphs[n].face_id \notin Range(UsedAtEntry)
         ELSE ctx'.glyphs[n].face_id = ctx.used[1]]_vars

\* C8's case: an invocation entered by recursion has appended a shaped glyph.
C8_Witness ==
  /\ pc = "segment"
  /\ Len(stack) >= 2
  /\ Top.entered /\ Top.i > 1
  /\ ctx.glyphs # << >>
  /\ ctx.glyphs[Len(ctx.glyphs)].face_id = Top.face_id
  /\ ctx.glyphs[Len(ctx.glyphs)].glyph_id # 0

\* The innermost invocation is at its entry and can select no face: every
\* family left resolves to no face or to a used one, and fallback is disabled
\* or yields no unused face.
NoFaceSelectable ==
  LET fams == Families(styles)
      like == IF ctx.used = << >> THEN NoFace ELSE ctx.used[1]
      fb == SelectFallback(like, Top.text)
  IN  /\ \A k \in Top.fam..Len(fams) :
           Select(fams[k]) = NoFace \/ Select(fams[k]) \in Range(ctx.used)
      /\ styles.fallback => (fb = NoFace \/ fb \in Range(ctx.used))

\* C9: when shape_segment is called on a segment that is not only newlines
\* and tabs and no face can be selected, then, with a non-empty used stack,
\* exactly one glyph per char of the segment is appended (glyph_id 0, the
\* outermost face, that face's advance for glyph 0 or zero, cluster base + the
\* char's byte offset, safe_to_break); with an empty used stack no glyph is
\* appended.  The used stack is unchanged.
C9_TofuPerChar ==
  [][(pc = "segment" /\ ~Top.entered /\ ~AllNewlineTab(Top.text)
      /\ NoFaceSelectable) =>
       /\ ctx'.used = ctx.used
       /\ IF ctx.used = << >> THEN ctx'.glyphs = ctx.glyphs
          ELSE /\ Len(ctx'.glyphs) = Len(ctx.glyphs) + Len(Top.text)
               /\ SubSeq(ctx'.glyphs, 1, Len(ctx.glyphs)) = ctx.glyphs
               /\ \A j \in 1..Len(Top.text) :
                    LET g == ctx'.glyphs[Len(ctx.glyphs) + j]
                        adv == HorAdvance(ctx.used[1], 0)
                    IN  /\ g.glyph_id = 0
                        /\ g.face_id = ctx.used[1]
                        /\ g.x_advance = IF adv < 0 THEN 0 ELSE adv
                        /\ g.cluster = Top.base + Off(Top.text, j)
                        /\ g.safe_to_break]_vars

\* C9's case: tofu placeholders were appended for a segment of two chars that
\* does not start the text.
C9_Witness ==
  /\ pc = "segment"
  /\ Len(ctx.glyphs) >= 3
  /\ ctx.glyphs[Len(ctx.glyphs)].glyph_id = 0
  /\ ctx.glyphs[Len(ctx.glyphs) - 1].glyph_id = 0
  /\ ctx.glyphs[Len(ctx.glyphs) - 1].cluster > 0
  /\ ctx.glyphs[Len(ctx.glyphs)].cluster > ctx.glyphs[Len(ctx.glyphs) - 1].cluster

\* C10: with TRACKING zero and SPACING one, the tracking and word-spacing pass
\* leaves the glyph vector as it was: every field of every glyph, the number
\* of glyphs and their order.
C10_NeutralPassKeepsGlyphs ==
  [][(pc = "finish" /\ styles.tracking = 0 /\ styles.spacing = 1) =>
       run'.glyphs = ctx.glyphs]_vars

\* C10's case: a run with a space and several clusters was shaped with
\* TRACKING zero and SPACING one.
C10_Witness ==
  /\ pc = "idle"
  /\ FromShape(run)
  /\ styles.tracking = 0 /\ styles.spacing = 1
  /\ \E i \in 1..Len(run.glyphs) : run.glyphs[i].c = " "
  /\ \E i \in 1..(Len(run.glyphs) - 1) : run.glyphs[i].cluster # run.glyphs[i + 1].cluster

\* The loop of the innermost invocation stands at a notdef entry.
AtTofu ==
  /\ pc = "segment"
  /\ Top.entered
  /\ Top.i <= Len(Top.infos)
  /\ Top.infos[Top.i].glyph_id = 0

\* infos[k ..= i] is a maximal contiguous sub-run of notdef entries.
MaximalTofuRun(infos, k, i) ==
  /\ k <= i
  /\ \A n \in k..i : infos[n].glyph_id = 0
  /\ (k = 1 \/ infos[k - 1].glyph_id # 0)
  /\ (i = Len(infos) \/ infos[i + 1].glyph_id # 0)

\* The text range C11 states for the run infos[k ..= i] (indices from 1).
ClaimedStart(infos, k, i, dir) ==
  IF dir = "LTR" THEN infos[k].cluster ELSE infos[i].cluster

ClaimedEnd(infos, k, i, t, dir) ==
  IF dir = "LTR"
  THEN IF i + 1 <= Len(infos) THEN infos[i + 1].cluster ELSE ByteLen(t)
  ELSE IF k > 1 THEN infos[k - 1].cluster ELSE ByteLen(t)

\* C11: whenever the loop of shape_segment stands at a notdef entry, the
\* entry starts a maximal run infos[k ..= i] of notdef entries, and the step
\* recurses once on the text range start .. end (LTR: infos[k].cluster to
\* infos[i+1].cluster or text.len(); RTL: infos[i].cluster to
\* infos[k-1].cluster or text.len()), with base + start, with the tail of the
\* family iterator left after this invocation's selection, with the glyphs
\* at the tail of the output whose cluster is in base+start .. base+end
\* removed and no other glyph touched; the loop resumes after the run.
C11_TofuRunRecursesOnce ==
  [][AtTofu =>
       \E i \in Top.i..Len(Top.infos) :
         LET fr == Top
             k == fr.i
             fams == Families(styles)
             start == ClaimedStart(fr.infos, k, i, ctx.dir)
             end == ClaimedEnd(fr.infos, k, i, fr.text, ctx.dir)
             new == stack'[Len(stack')]
             n == Len(ctx'.glyphs)
         IN  /\ MaximalTofuRun(fr.infos, k, i)
             /\ pc' = "segment"
             /\ Len(stack') = Len(stack) + 1
             /\ stack'[Len(stack)] = [fr EXCEPT !.i = i + 1]
             /\ SubSeq(stack', 1, Len(stack) - 1) = SubSeq(stack, 1, Len(stack) - 1)
             /\ ~new.entered
             /\ new.base = fr.base + start
             /\ new.text = SliceBytes(fr.text, start, end)
             /\ new.fam = fr.fam
             /\ (new.fam = Len(fams) + 1 \/ Select(fams[new.fam - 1]) = fr.face_id)
             /\ n <= Len(ctx.glyphs)
             /\ ctx'.glyphs = SubSeq(ctx.glyphs, 1, n)
             /\ \A m \in (n + 1)..Len(ctx.glyphs) :
                  /\ fr.base + start <= ctx.glyphs[m].cluster
                  /\ ctx.glyphs[m].cluster < fr.base + end
             /\ (n > 0 =>
                   ~(/\ fr.base + start <= ctx.glyphs[n].cluster
                     /\ ctx.glyphs[n].cluster < fr.base + end))
             /\ ctx'.used = ctx.used]_vars

\* A recursion has just been started for a notdef entry that shares its
\* cluster with a glyph pushed right before it, in a right-to-left or
\* left-to-right run; the half-baked cluster has been trimmed.
C11_Witness ==
  /\ pc = "segment"
  /\ Len(stack) >= 2
  /\ ~Top.entered
  /\ LET p == stack[Len(stack) - 1]
     IN  /\ p.i >= 3
         /\ p.infos[p.i - 2].glyph_id # 0
         /\ p.infos[p.i - 2].cluster = p.infos[p.i - 1].cluster
         /\ \A m \in 1..Len(ctx.glyphs) : ctx.glyphs[m].glyph_id # p.infos[p.i - 2].glyph_id

\* A recursion has just been started in a right-to-left run for a notdef run
\* that does not begin the shaper output.
C11_WitnessRtl ==
  /\ pc = "segment"
  /\ Len(stack) >= 2
  /\ ~Top.entered
  /\ ctx.dir = "RTL"
  /\ LET p == stack[Len(stack) - 1]
     IN  \E k \in 2..(p.i - 1) :
           /\ MaximalTofuRun(p.infos, k, p.i - 1)
           /\ Top.text # << >>

\* C12: for every run, in either direction and whatever the safe_to_break
\* flags, find_safe_to_break(0) gives 0 for LTR and glyphs.len() for RTL,
\* find_safe_to_break(text.len()) gives glyphs.len() for LTR and 0 for RTL,
\* and slice_safe_to_break(0 .. text.len()) gives Some(glyphs[0 .. glyphs.len()]).
C12_FullRangeFullSlice ==
  (pc = "idle" /\ run # NoRun) =>
    LET ltr == IsPositive(run.dir)
        len == Len(run.glyphs)
    IN  /\ \A side \in {"Left", "Right"} :
             /\ FindSafeToBreak(run, 0, side) = {IF ltr THEN 0 ELSE len}
             /\ FindSafeToBreak(run, ByteLen(run.text), side) =
                  {IF ltr THEN len ELSE 0}
        /\ SliceSafeToBreak(run, 0, ByteLen(run.text)) =
             {[kind |-> "some", left |-> 0, right |-> len]}

\* The pass of track_and_space is not the neutral one.
PassApplies == pc = "finish" /\ (styles.tracking # 0 \/ styles.spacing # 1)

\* The advance of glyph i with the spacing factor applied to a space.
Spaced(gs, i) ==
  IF gs[i].c = " " THEN gs[i].x_advance * styles.spacing ELSE gs[i].x_advance

\* The pass changes the advances only.
OnlyAdvancesChange(old, new) ==
  /\ Len(new) = Len(old)
  /\ \A i \in 1..Len(old) : new[i] = [old[i] EXCEPT !.x_advance = new[i].x_advance]

\* C13 as stated: when TRACKING is non-zero or SPACING is not one, the pass
\* adds tracking to the advance of every glyph that is the last of its
\* cluster, the final glyph of the run included, and to no other, after
\* multiplying the advance of every space glyph by the spacing factor; all
\* else is unchanged.
C13_TrackingOnEveryClusterEnd ==
  [][PassApplies =>
       /\ OnlyAdvancesChange(ctx.glyphs, run'.glyphs)
       /\ \A i \in 1..Len(ctx.glyphs) :
            run'.glyphs[i].x_advance =
              Spaced(ctx.glyphs, i) +
              (IF i = Len(ctx.glyphs) \/ ctx.glyphs[i].cluster # ctx.glyphs[i + 1].cluster
               THEN styles.tracking ELSE 0)]_vars

\* C13 amended: when TRACKING is non-zero or SPACING is not one, the pass
\* adds tracking to the advance of every glyph that is followed by a glyph
\* of another cluster and to no other glyph, so not to the final glyph of the
\* run, after multiplying the advance of every space glyph by the spacing
\* factor; glyph count, order and all other fields are unchanged.
C13_TrackingBetweenClusters ==
  [][PassApplies =>
       /\ OnlyAdvancesChange(ctx.glyphs, run'.glyphs)
       /\ \A i \in 1..Len(ctx.glyphs) :
            run'.glyphs[i].x_advance =
              Spaced(ctx.glyphs, i) +
              (IF i < Len(ctx.glyphs) /\ ctx.glyphs[i].cluster # ctx.glyphs[i + 1].cluster
               THEN styles.tracking ELSE 0)]_vars

\* shape has returned a run, shaped with tracking and a spacing factor, that
\* has a space glyph followed by another cluster and a cluster of two glyphs.
C13_Witness ==
  /\ pc = "idle"
  /\ FromShape(run)
  /\ styles.tracking = 1 /\ styles.spacing = 2
  /\ \E i \in 1..(Len(run.glyphs) - 1) :
       run.glyphs[i].c = " " /\ run.glyphs[i].cluster # run.glyphs[i + 1].cluster
  /\ \E i \in 1..(Len(run.glyphs) - 1) :
       run.glyphs[i].cluster = run.glyphs[i + 1].cluster

\* One step of shape_segment.
SegStep == SegEnter \/ SegGlyph \/ SegTofu \/ SegExit

\* The calls of shape alone: what the caller does with the run afterwards has
\* no part in whether shape returns.
ShapeNext ==
  ShapeCall \/ SegEnter \/ SegGlyph \/ SegTofu \/ SegExit \/ ShapeFinish

\* shape runs to its end once called: the code is sequential, so a step of
\* shape_segment that can be taken is taken, and so is the end of shape.
LiveSpec ==
  Init /\ [][ShapeNext]_vars /\ WF_vars(SegStep) /\ WF_vars(ShapeFinish)

\* The recursion is as deep as the faces allow: the used stack holds the
\* faces of the invocations that shaped, one each and all distinct, and only
\* the innermost invocation may not have selected a face yet.
DepthBounded ==
  pc = "segment" =>
    /\ Len(stack) <= Cardinality(Faces) + 1
    /\ \A j \in 1..(Len(stack) - 1) : stack[j].entered
    /\ Len(ctx.used) = Len(stack) - (IF Top.entered THEN 0 ELSE 1)
    /\ \A j \in 1..Len(ctx.used) : ctx.used[j] = stack[j].face_id
    /\ \A j, m \in 1..Len(ctx.used) : ctx.used[j] = ctx.used[m] => j = m

\* A pass of the loop moves the index of its invocation forward, and no step
\* moves the index of an invocation back.
IndexAdvances ==
  /\ (pc = "segment" /\ Top.entered /\ Top.i <= Len(Top.infos)) =>
       /\ Len(stack') >= Len(stack)
       /\ stack'[Len(stack)].i > Top.i
  /\ \A j \in 1..Len(stack) :
       (j <= Len(stack') /\ stack[j].entered) => stack'[j].i >= stack[j].i

\* C14: every call of shape terminates: the recursion of shape_segment is at
\* most one deeper than the number of faces, every invocation that recursed
\* having pushed a face that was not on the used stack; every pass of a loop
\* moves its index forward; the used stack is empty when the outermost
\* shape_segment has returned; and shape_segment, once called, returns.
C14_ShapeTerminates ==
  /\ []DepthBounded
  /\ [][IndexAdvances]_vars
  /\ [](pc = "finish" => (ctx.used = << >> /\ stack = << >>))
  /\ (pc = "segment" ~> pc = "finish")
  /\ (pc = "finish" ~> pc = "idle")

\* The recursion is at its deepest: every face is on the used stack and the
\* innermost invocation has none left to select.
C14_Witness ==
  /\ pc = "segment"
  /\ Len(stack) = Cardinality(Faces) + 1
  /\ Len(ctx.used) = Cardinality(Faces)
  /\ ~Top.entered

====
